---- MODULE Spec2Model ----
(***************************************************************************)
(* A model of mpvinfod.py: a status reporter that connects to the mpv IPC  *)
(* socket, subscribes to properties and prints a line per batch of         *)
(* property-change events.                                                 *)
(*                                                                         *)
(* Python values are tagged records: PyNone, PyStr(s), PyNum(n10) (a JSON   *)
(* number, held in tenths so that 37.0 and 37.5 are distinct), and          *)
(* PyDict(d).  A call that may raise returns Ret(v) or Raise(e).            *)
(***************************************************************************)
EXTENDS Integers, Sequences, FiniteSets, TLC

VARIABLES
    pc,               \* position of the main thread
    exc,              \* how the process ended ("" while it runs)
    out,              \* the lines written to standard output
    handler,          \* TRUE once signal.signal(SIGINT, signal_handler) ran
    watching,         \* TRUE once inotify.add_watch ran
    events,           \* names of the unread inotify CREATE events
    sockFile,         \* a file exists at ADDR
    notified,         \* that file was created under the watch (its CREATE
                      \* event was queued)
    peer,             \* the mpv server: "down", "bound" or "listening"
    peerStarts,       \* how many times the peer has started
    conn,             \* the reporter's socket: "none", "open", "closed",
                      \* "reset"
    sent,             \* the commands sent on the current socket
    formatted_cache,  \* run_observer's formatted_cache
    contents,         \* the lines of the last non-empty recv
    json_list,        \* get_jsons of contents
    specIdx,          \* how many specs the for loop has taken (the last is
                      \* user_config[specIdx])
    value,            \* get_newest_data's result for user_config[specIdx]
    fmt               \* one call of format_property: its arguments and result

vars == <<pc, exc, out, handler, watching, events, sockFile, notified, peer,
          peerStarts, conn, sent, formatted_cache, contents, json_list,
          specIdx, value, fmt>>

-----------------------------------------------------------------------------
(* Bounds of the model *)

MaxBatch == 2

MaxPeerStarts == 2

MaxEvents == 2

\* longest string handed to format_property when it is followed alone
MaxValueLen == 82

-----------------------------------------------------------------------------
(* Python values and results *)

PyNone == [t |-> "None"]

PyStr(s) == [t |-> "str", s |-> s]

PyNum(n10) == [t |-> "num", n |-> n10]

PyDict(d) == [t |-> "dict", d |-> d]

Ret(v) == [raised |-> "", val |-> v]

Raise(e) == [raised |-> e]

-----------------------------------------------------------------------------
(* Module constants and configuration *)

CLIENT_ID == 1

EMPTYSTR == ""

\* pathlib.Path(ADDR).stem of '/tmp/mpvsocket'
watch_file == "mpvsocket"

\* a replace_map with no entries
NoReplace == [k \in {} |-> ""]

\* Template strings are held as the text before and after the one $p.
default_spec_values ==
    [type |-> "string", format |-> <<"", "">>, max_length |-> 50,
     shorten_str |-> "...", replace_map |-> NoReplace]

default_config ==
    << [property |-> "loop-file", format |-> <<"", " ">>,
        replace_map |-> [no |-> "", inf |-> "(r)"], max_length |-> 5],
       [property |-> "volume", format |-> <<"(", "%) ">>, type |-> "int",
        max_length |-> 5],
       [property |-> "media-title", format |-> <<"", "">>, max_length |-> 80],
       [property |-> "metadata/by-key/album", format |-> <<" | ", "">>,
        max_length |-> 50] >>

\* {**default_spec_values, **spec}
MergeSpec(defaults, spec) ==
    [k \in DOMAIN defaults \cup DOMAIN spec |->
        IF k \in DOMAIN spec THEN spec[k] ELSE defaults[k]]

fix_config(config) ==
    [idx \in DOMAIN config |-> MergeSpec(default_spec_values, config[idx])]

user_config == fix_config(default_config)

\* generate_prop_index, 1-based
generate_prop_index(config) ==
    [p \in {config[i].property : i \in DOMAIN config} |->
        CHOOSE i \in DOMAIN config : config[i].property = p]

prop_index == generate_prop_index(user_config)

-----------------------------------------------------------------------------
(* Conversions *)

Digits == <<"0", "1", "2", "3", "4", "5", "6", "7", "8", "9">>

DigitChars == {Digits[i] : i \in DOMAIN Digits}

DigitValue(c) == (CHOOSE i \in DOMAIN Digits : Digits[i] = c) - 1

\* str(n) of a Python int
RECURSIVE NatToStr(_)
NatToStr(n) ==
    IF n < 10 THEN Digits[n + 1]
    ELSE NatToStr(n \div 10) \o Digits[(n % 10) + 1]

IntToStr(n) == IF n < 0 THEN "-" \o NatToStr(-n) ELSE NatToStr(n)

\* the decimal value of a string of digits
RECURSIVE DigitsToNat(_)
DigitsToNat(s) ==
    IF Len(s) = 0 THEN 0
    ELSE 10 * DigitsToNat(SubSeq(s, 1, Len(s) - 1))
         + DigitValue(SubSeq(s, Len(s), Len(s)))

IsDigits(s) ==
    /\ Len(s) > 0
    /\ \A i \in 1..Len(s) : SubSeq(s, i, i) \in DigitChars

\* int(v): a float is truncated towards zero, a string must be an integer
\* literal, None is a TypeError
py_int(v) ==
    CASE v.t = "num" ->
            Ret(IF v.n >= 0 THEN v.n \div 10 ELSE -((-v.n) \div 10))
      [] v.t = "str" ->
            IF IsDigits(v.s) THEN Ret(DigitsToNat(v.s))
            ELSE IF Len(v.s) > 1 /\ SubSeq(v.s, 1, 1) = "-"
                    /\ IsDigits(SubSeq(v.s, 2, Len(v.s)))
                 THEN Ret(-DigitsToNat(SubSeq(v.s, 2, Len(v.s))))
                 ELSE Raise("ValueError")
      [] OTHER -> Raise("TypeError")

\* dict.get(key) of a dict held as a function from keys
Get(d, k) == IF k \in DOMAIN d THEN d[k] ELSE PyNone

\* truth value of a Python value
Truthy(v) ==
    CASE v.t = "str" -> v.s # ""
      [] v.t = "num" -> v.n # 0
      [] OTHER -> FALSE

-----------------------------------------------------------------------------
(* Formatting Engine *)

\* format_property cutting a value of exactly max_length characters too
format_property_cut_at_limit(prop_spec, prop_value) ==
    IF prop_spec.t # "dict"
    THEN Raise("TypeError")   \* prop_spec['type'] on a str
    ELSE
      LET spec == prop_spec.d
          asInt == py_int(prop_value)
      IN
      IF spec.type = "int" /\ asInt.raised # ""
      THEN Raise(asInt.raised)
      ELSE
        LET v1 == IF spec.type = "int" THEN PyStr(IntToStr(asInt.val))
                  ELSE prop_value
            replace_val == IF v1.t = "str" THEN
                               (IF v1.s \in DOMAIN spec.replace_map
                                THEN PyStr(spec.replace_map[v1.s]) ELSE PyNone)
                           ELSE PyNone
            v2 == IF replace_val # PyNone THEN replace_val ELSE v1
        IN
        IF v2.t # "str"
        THEN Raise("TypeError")   \* len() of a number
        ELSE
          LET max_len == spec.max_length
              is_too_long == Len(v2.s) >= max_len
              shortened == IF is_too_long
                           THEN SubSeq(v2.s, 1, max_len) \o spec.shorten_str
                           ELSE v2.s
          IN Ret(spec.format[1] \o shortened \o spec.format[2])

format_property(prop_spec, prop_value) ==
    IF prop_spec.t # "dict"
    THEN Raise("TypeError")   \* prop_spec['type'] on a str
    ELSE
      LET spec == prop_spec.d
          asInt == py_int(prop_value)
      IN
      IF spec.type = "int" /\ asInt.raised # ""
      THEN Raise(asInt.raised)
      ELSE
        LET v1 == IF spec.type = "int" THEN PyStr(IntToStr(asInt.val))
                  ELSE prop_value
            replace_val == IF v1.t = "str" THEN
                               (IF v1.s \in DOMAIN spec.replace_map
                                THEN PyStr(spec.replace_map[v1.s]) ELSE PyNone)
                           ELSE PyNone
            v2 == IF replace_val # PyNone THEN replace_val ELSE v1
        IN
        IF v2.t # "str"
        THEN Raise("TypeError")   \* len() of a number
        ELSE
          LET max_len == spec.max_length
              is_too_long == Len(v2.s) > max_len
              shortened == IF is_too_long
                           THEN SubSeq(v2.s, 1, max_len) \o spec.shorten_str
                           ELSE v2.s
          IN Ret(spec.format[1] \o shortened \o spec.format[2])

-----------------------------------------------------------------------------
(* Protocol Codec *)

\* A received line is the JSON value it encodes, or Garbage when it is not JSON.
Garbage == [t |-> "garbage"]

PyList == [t |-> "list"]

\* list(map(json.loads, str.splitlines()))
get_jsons(lines) ==
    IF \E i \in DOMAIN lines : lines[i] = Garbage
    THEN Raise("JSONDecodeError")
    ELSE Ret(lines)

\* list(map(j.get, ['event', 'id', 'name']))
\*     == ['property-change', CLIENT_ID, event]
Matches(j, event) ==
    /\ j.t = "dict"
    /\ Get(j.d, "event") = PyStr("property-change")
    /\ Get(j.d, "id") = PyNum(10 * CLIENT_ID)
    /\ Get(j.d, "name") = PyStr(event)

\* get_newest_data with the id left out of the comparison
get_newest_data_any_id(jl, event) ==
    IF \E i \in DOMAIN jl : jl[i].t # "dict"
    THEN Raise("AttributeError")
    ELSE
      LET evs == SelectSeq(jl, LAMBDA j :
                     /\ Get(j.d, "event") = PyStr("property-change")
                     /\ Get(j.d, "name") = PyStr(event))
      IN IF evs = <<>> THEN Ret(PyNone)
         ELSE LET data == Get(evs[Len(evs)].d, "data")
              IN Ret(IF Truthy(data) THEN data ELSE PyStr(""))

MatchingEvents(jl, event) == SelectSeq(jl, LAMBDA j : Matches(j, event))

get_newest_data(jl, event) ==
    IF \E i \in DOMAIN jl : jl[i].t # "dict"
    THEN Raise("AttributeError")   \* j.get of a value that is no dict
    ELSE
      LET evs == MatchingEvents(jl, event)
      IN IF evs = <<>> THEN Ret(PyNone)
         ELSE LET data == Get(evs[Len(evs)].d, "data")
              IN Ret(IF Truthy(data) THEN data ELSE PyStr(""))

\* the command observe() sends
\* observe with the two verbs exchanged
observe_swapped(prop, as_str) ==
    <<IF as_str THEN "observe_property" ELSE "observe_property_string",
      CLIENT_ID, prop>>

observe(prop, as_str) ==
    <<IF as_str THEN "observe_property_string" ELSE "observe_property",
      CLIENT_ID, prop>>

request_observers(config) ==
    [i \in DOMAIN config |->
        observe(config[i].property, config[i].type = "string")]

-----------------------------------------------------------------------------
(* Output *)

output(o, str) == Append(o, str)

output_empty(o) == output(o, EMPTYSTR)

\* end_session without its output_empty()
end_session_silent(o) == o

end_session(o) == output_empty(o)

\* formatted_cache[i] = v, with i counted from 1
ListSet(list, i, v) ==
    IF i \in DOMAIN list THEN Ret([list EXCEPT ![i] = v])
    ELSE Raise("IndexError")

\* format_cached() at line 212: the definition is commented out, so looking
\* the name up raises NameError
format_cached(cache) == Raise("NameError")

-----------------------------------------------------------------------------
(* What the peer can send *)

Event(name, id, data) ==
    PyDict([event |-> PyStr("property-change"), id |-> PyNum(10 * id),
            name |-> PyStr(name), data |-> data])

Lines ==
    { Event("media-title", CLIENT_ID, PyStr("Song A")),
      Event("media-title", CLIENT_ID, PyStr("Song B")),
      Event("media-title", CLIENT_ID + 1, PyStr("Song B")),
      Event("media-title", CLIENT_ID, PyNone),
      Event("volume", CLIENT_ID, PyNum(370)),
      Event("volume", CLIENT_ID, PyNum(0)),
      Event("volume", CLIENT_ID, PyStr("abc")),
      Event("loop-file", CLIENT_ID, PyStr("no")),
      Event("pause", CLIENT_ID, PyStr("yes")),
      PyDict([event |-> PyStr("idle")]),
      PyList,
      Garbage }

RECURSIVE SeqsUpTo(_, _)
SeqsUpTo(S, n) ==
    IF n = 0 THEN {<<>>}
    ELSE LET shorter == SeqsUpTo(S, n - 1)
         IN shorter \cup {Append(b, x) : b \in shorter, x \in S}

\* the non-empty reads: one or more lines
Batches == SeqsUpTo(Lines, MaxBatch) \ {<<>>}

-----------------------------------------------------------------------------
(* The state machine *)

\* no call of format_property is being followed
NoCall == [spec |-> PyNone, value |-> PyNone, result |-> Raise("none")]

Init ==
    /\ pc = "start"
    /\ exc = ""
    /\ out = <<>>
    /\ handler = FALSE
    /\ watching = FALSE
    /\ events = <<>>
    /\ sockFile \in BOOLEAN
    /\ notified = FALSE
    /\ peer = "down"
    /\ peerStarts = 0
    /\ conn = "none"
    /\ sent = <<>>
    /\ formatted_cache = <<>>
    /\ contents = <<>>
    /\ json_list = <<>>
    /\ specIdx = 0
    /\ value = PyNone
    /\ fmt = NoCall

\* an uncaught exception ends the process; the with block closes the socket
Die(e) ==
    /\ pc' = "exited"
    /\ exc' = e
    /\ conn' = "none"

\* run(), lines 253-262: load the configuration, install the handler
InstallHandler ==
    /\ pc = "start"
    /\ UNCHANGED fmt
    /\ handler' = TRUE
    /\ pc' = "init"
    /\ UNCHANGED <<exc, out, watching, events, sockFile, notified, peer,
                   peerStarts, conn, sent, formatted_cache, contents,
                   json_list, specIdx, value>>

\* run(), lines 263-269: the first empty line, then the directory watch
StartWatch ==
    /\ pc = "init"
    /\ UNCHANGED fmt
    /\ out' = output_empty(out)
    /\ watching' = TRUE
    /\ pc' = "connect"
    /\ UNCHANGED <<exc, handler, events, sockFile, notified, peer, peerStarts,
                   conn, sent, formatted_cache, contents, json_list, specIdx,
                   value>>

\* what sock.connect(ADDR) does: "ok", or the exception it raises
connect_result(file, p) ==
    IF ~file THEN "FileNotFoundError"
    ELSE IF p # "listening" THEN "ConnectionRefusedError"
    ELSE "ok"

\* except ConnectionError: ConnectionRefusedError is one,
\* FileNotFoundError is not
IsConnectionError(e) ==
    e \in {"ConnectionRefusedError", "ConnectionResetError", "BrokenPipeError",
           "ConnectionAbortedError"}

\* wait_connect, lines 152-158: one connect attempt
Connect ==
    /\ pc = "connect"
    /\ UNCHANGED fmt
    /\ LET r == connect_result(sockFile, peer)
       IN IF r = "ok"
          THEN /\ conn' = "open"
               /\ sent' = <<>>
               /\ pc' = "subscribe"
               /\ UNCHANGED exc
          ELSE IF IsConnectionError(r)
          THEN /\ pc' = "wait_event"
               /\ UNCHANGED <<exc, conn, sent>>
          ELSE /\ Die(r)
               /\ UNCHANGED sent
    /\ UNCHANGED <<out, handler, watching, events, sockFile, notified, peer,
                   peerStarts, formatted_cache, contents, json_list, specIdx,
                   value>>

\* wait_connect, lines 159-164: one inotify.read() that returns the unread
\* events; the loop goes on until one of them names the socket
InotifyRead ==
    /\ pc = "wait_event"
    /\ UNCHANGED fmt
    /\ events # <<>>
    /\ events' = <<>>
    /\ pc' = IF \E i \in DOMAIN events : events[i] = watch_file
             THEN "connect" ELSE "wait_event"
    /\ UNCHANGED <<exc, out, handler, watching, sockFile, notified, peer,
                   peerStarts, conn, sent, formatted_cache, contents,
                   json_list, specIdx, value>>

\* request_observers, then the start of run_observer (line 189)
Subscribe ==
    /\ pc = "subscribe"
    /\ UNCHANGED fmt
    /\ IF conn = "open"
       THEN /\ sent' = request_observers(user_config)
            /\ formatted_cache' = <<>>
            /\ contents' = <<>>
            /\ json_list' = <<>>
            /\ specIdx' = 0
            /\ value' = PyNone
            /\ pc' = "recv"
            /\ UNCHANGED <<exc, conn>>
       ELSE /\ Die("BrokenPipeError")   \* sendall after the peer has gone
            /\ UNCHANGED <<sent, formatted_cache, contents, json_list,
                           specIdx, value>>
    /\ UNCHANGED <<out, handler, watching, events, sockFile, notified, peer,
                   peerStarts>>

\* run_observer, lines 192-201: a non-empty read and its decoding
RecvData ==
    /\ pc = "recv"
    /\ UNCHANGED fmt
    /\ conn = "open"
    /\ \E b \in Batches :
         LET r == get_jsons(b)
         IN /\ contents' = b
            /\ IF r.raised # ""
               THEN /\ Die(r.raised)
                    /\ UNCHANGED <<json_list, specIdx, value>>
               ELSE /\ json_list' = r.val
                    /\ specIdx' = 0
                    /\ value' = PyNone
                    /\ pc' = "update"
                    /\ UNCHANGED <<exc, conn>>
    /\ UNCHANGED <<out, handler, watching, events, sockFile, notified, peer,
                   peerStarts, sent, formatted_cache>>

\* run_observer, lines 193-198: reset or zero-length read, end_session, return;
\* the with block closes the socket and run() loops to wait_connect
RecvClosed ==
    /\ pc = "recv"
    /\ UNCHANGED fmt
    /\ conn \in {"closed", "reset"}
    /\ out' = end_session(out)
    /\ conn' = "none"
    /\ pc' = "connect"
    /\ UNCHANGED <<exc, handler, watching, events, sockFile, notified, peer,
                   peerStarts, sent, formatted_cache, contents, json_list,
                   specIdx, value>>

\* one pass of the for loop, lines 202-211, for user_config[i]:
\* the value found, the cache after it, and the exception raised if any
UpdateResult(cache, jl, i) ==
    LET prop == user_config[i].property
        r == get_newest_data(jl, prop)
    IN
    IF r.raised # ""
    THEN [raised |-> r.raised, value |-> PyNone, cache |-> cache]
    ELSE IF r.val = PyStr("")
    THEN LET a == ListSet(cache, prop_index[prop], "")
         IN IF a.raised # ""
            THEN [raised |-> a.raised, value |-> r.val, cache |-> cache]
            ELSE [raised |-> "", value |-> r.val, cache |-> a.val]
    ELSE IF r.val # PyNone
    THEN LET f == format_property(PyStr(prop), r.val)
         IN IF f.raised # ""
            THEN [raised |-> f.raised, value |-> r.val, cache |-> cache]
            ELSE LET a == ListSet(cache, prop_index[prop], f.val)
                 IN IF a.raised # ""
                    THEN [raised |-> a.raised, value |-> r.val, cache |-> cache]
                    ELSE [raised |-> "", value |-> r.val, cache |-> a.val]
    ELSE [raised |-> "", value |-> r.val, cache |-> cache]

UpdateSpec ==
    /\ pc = "update"
    /\ UNCHANGED fmt
    /\ LET i == specIdx + 1
           u == UpdateResult(formatted_cache, json_list, i)
       IN /\ specIdx' = i
          /\ value' = u.value
          /\ formatted_cache' = u.cache
          /\ IF u.raised # ""
             THEN Die(u.raised)
             ELSE /\ pc' = IF i < Len(user_config) THEN "update" ELSE "output"
                  /\ UNCHANGED <<exc, conn>>
    /\ UNCHANGED <<out, handler, watching, events, sockFile, notified, peer,
                   peerStarts, sent, contents, json_list>>

\* run_observer, line 212
Output ==
    /\ pc = "output"
    /\ UNCHANGED fmt
    /\ LET line == format_cached(formatted_cache)
       IN IF line.raised # ""
          THEN /\ Die(line.raised)
               /\ UNCHANGED out
          ELSE /\ out' = output(out, line.val)
               /\ pc' = "recv"
               /\ UNCHANGED <<exc, conn>>
    /\ UNCHANGED <<handler, watching, events, sockFile, notified, peer,
                   peerStarts, sent, formatted_cache, contents, json_list,
                   specIdx, value>>

\* signal_handler without its output_empty()
signal_handler_silent(o) == o

\* what signal_handler writes before sys.exit(0)
signal_handler(o) == output_empty(o)

\* SIGINT while the process runs: signal_handler once installed, and
\* KeyboardInterrupt before that
Signal ==
    /\ pc # "exited"
    /\ UNCHANGED fmt
    /\ IF handler
       THEN /\ out' = signal_handler(out)
            /\ Die("SystemExit")
       ELSE /\ Die("KeyboardInterrupt")
            /\ UNCHANGED out
    /\ UNCHANGED <<handler, watching, events, sockFile, notified, peer,
                   peerStarts, sent, formatted_cache, contents, json_list,
                   specIdx, value>>

-----------------------------------------------------------------------------
(* The environment: the mpv server and the socket's directory *)

\* The peer is followed while the reporter can see what it does: the for
\* loop and the output step read nothing the peer changes, and nothing does
\* once the process has exited.
PeerVisible == pc \notin {"update", "output", "exited"}

\* what inotify queues for a file created in the watched directory
Notify(q, w, name) == IF w THEN Append(q, name) ELSE q

\* mpv starts: it replaces any stale socket file and binds the address
PeerBind ==
    /\ PeerVisible
    /\ UNCHANGED fmt
    /\ peer = "down"
    /\ peerStarts < MaxPeerStarts
    /\ Len(events) < MaxEvents
    /\ peer' = "bound"
    /\ peerStarts' = peerStarts + 1
    /\ sockFile' = TRUE
    /\ notified' = watching
    /\ events' = Notify(events, watching, watch_file)
    /\ UNCHANGED <<pc, exc, out, handler, watching, conn, sent,
                   formatted_cache, contents, json_list, specIdx, value>>

\* mpv starts to accept connections: bind() and listen() are two calls, and
\* a connect between them is refused (the refusal line 163 speaks of)
PeerListen ==
    /\ PeerVisible
    /\ UNCHANGED fmt
    /\ peer = "bound"
    /\ peer' = "listening"
    /\ UNCHANGED <<pc, exc, out, handler, watching, events, sockFile,
                   notified, peerStarts, conn, sent, formatted_cache,
                   contents, json_list, specIdx, value>>

\* mpv goes away, with or without removing its socket file; an open
\* connection is closed or reset
PeerExit ==
    /\ PeerVisible
    /\ UNCHANGED fmt
    /\ peer \in {"bound", "listening"}
    /\ peer' = "down"
    /\ \E unlink \in BOOLEAN :
           /\ sockFile' = (sockFile /\ ~unlink)
           /\ notified' = (notified /\ ~unlink)
    /\ \E how \in {"closed", "reset"} :
           conn' = IF conn = "open" THEN how ELSE conn
    /\ UNCHANGED <<pc, exc, out, handler, watching, events, peerStarts, sent,
                   formatted_cache, contents, json_list, specIdx, value>>

\* another file is created in the socket's directory
OtherFile ==
    /\ PeerVisible
    /\ UNCHANGED fmt
    /\ watching
    /\ Len(events) < MaxEvents
    /\ events' = Notify(events, watching, "other")
    /\ UNCHANGED <<pc, exc, out, handler, watching, sockFile, notified, peer,
                   peerStarts, conn, sent, formatted_cache, contents,
                   json_list, specIdx, value>>

Main ==
    \/ InstallHandler
    \/ StartWatch
    \/ Connect
    \/ InotifyRead
    \/ Subscribe
    \/ RecvData
    \/ RecvClosed
    \/ UpdateSpec
    \/ Output

Peer ==
    \/ PeerBind
    \/ PeerListen
    \/ PeerExit
    \/ OtherFile

Next == Main \/ Signal \/ Peer

Spec == Init /\ [][Next]_vars

\* The main thread runs whenever it can, and a peer that is down or only
\* bound goes on to bind and to listen.
LiveSpec ==
    /\ Spec
    /\ WF_vars(Main)
    /\ WF_vars(PeerBind)
    /\ WF_vars(PeerListen)

-----------------------------------------------------------------------------
(* format_property followed alone, on each spec of the config *)

Alphabet == "abcdefghijklmnopqrstuvwxyz"

\* a string of n characters, no two neighbours alike
RECURSIVE Sample(_)
Sample(n) ==
    IF n = 0 THEN ""
    ELSE Sample(n - 1) \o SubSeq(Alphabet, ((n - 1) % Len(Alphabet)) + 1,
                                            ((n - 1) % Len(Alphabet)) + 1)

\* the values of an event's data: strings of every length up to MaxValueLen,
\* the strings the replace maps name, numbers and numerals
FmtValues ==
    {PyStr(Sample(n)) : n \in 0..MaxValueLen}
    \cup {PyStr("no"), PyStr("inf"), PyStr("42"), PyStr("1234567"),
          PyStr("37.0")}
    \cup {PyNum(0), PyNum(370), PyNum(375), PyNum(-200), PyNum(12345670)}

FmtInit ==
    /\ fmt \in {[spec |-> PyDict(user_config[i]), value |-> v,
                 result |-> NoCall.result] :
                    i \in DOMAIN user_config, v \in FmtValues}
    /\ pc = "start"
    /\ exc = ""
    /\ out = <<>>
    /\ handler = FALSE
    /\ watching = FALSE
    /\ events = <<>>
    /\ sockFile = FALSE
    /\ notified = FALSE
    /\ peer = "down"
    /\ peerStarts = 0
    /\ conn = "none"
    /\ sent = <<>>
    /\ formatted_cache = <<>>
    /\ contents = <<>>
    /\ json_list = <<>>
    /\ specIdx = 0
    /\ value = PyNone

\* the call format_property(spec, value)
FmtApply ==
    /\ fmt.spec # PyNone
    /\ fmt.result = NoCall.result
    /\ fmt' = [fmt EXCEPT !.result = format_property(fmt.spec, fmt.value)]
    /\ UNCHANGED <<pc, exc, out, handler, watching, events, sockFile,
                   notified, peer, peerStarts, conn, sent, formatted_cache,
                   contents, json_list, specIdx, value>>

FmtNext == FmtApply

FmtSpec == FmtInit /\ [][FmtNext]_vars

-----------------------------------------------------------------------------
(* Properties *)

\* ''.join(cache)
RECURSIVE Join(_)
Join(cache) ==
    IF cache = <<>> THEN "" ELSE Head(cache) \o Join(Tail(cache))

\* the states of the main loop
MainLoop == {"connect", "wait_event", "subscribe", "recv", "update", "output"}

\* the process ended through SIGINT
Signalled == exc \in {"SystemExit", "KeyboardInterrupt"}

\* the handling of the decoded batch json_list has ended
BatchEnded ==
    /\ json_list # <<>>
    /\ \/ pc = "recv"
       \/ pc = "exited" /\ ~Signalled

\* the cache entry the last matching event of a batch asks for
EntryFor(spec, data) ==
    IF ~Truthy(data) THEN Ret("")
    ELSE format_property(PyDict(spec), data)

\* C1: after a decoded batch has been handled, each configured property with
\* matching events in it has the cache entry of the last such event, and the
\* line written for the batch is the concatenation of the cache.
C1_LastWriteWins ==
    BatchEnded =>
        \A i \in DOMAIN user_config :
            LET evs == MatchingEvents(json_list, user_config[i].property)
                want == EntryFor(user_config[i],
                                 Get(evs[Len(evs)].d, "data"))
            IN (evs # <<>> /\ want.raised = "") =>
                   /\ i \in DOMAIN formatted_cache
                   /\ formatted_cache[i] = want.val
                   /\ out[Len(out)] = Join(formatted_cache)

\* the batch holds a property-change event of this client for the property
HasMatch(jl, prop) == \E k \in DOMAIN jl : Matches(jl[k], prop)

\* C2: the for loop finds a value for a property, and changes the cache,
\* only when the batch holds an object whose event is property-change, whose
\* id is the client id and whose name is that configured property; objects
\* with another id, another event or another name change nothing.
C2_OnlyMatchingEvents ==
    /\ [](specIdx >= 1 /\ value # PyNone
            => HasMatch(json_list, user_config[specIdx].property))
    /\ [][(pc = "update" /\ formatted_cache' # formatted_cache)
            => HasMatch(json_list, user_config[specIdx'].property)]_vars

\* C2 witness: a batch holding another client's media-title event went
\* through the whole loop and left the cache as it was.
C2_Witness ==
    /\ pc = "exited"
    /\ exc = "NameError"
    /\ specIdx = Len(user_config)
    /\ \E k \in DOMAIN json_list :
           json_list[k] = Event("media-title", CLIENT_ID + 1, PyStr("Song B"))
    /\ value = PyNone
    /\ formatted_cache = <<>>

\* C3: a read that finds the connection closed or reset ends the session:
\* the empty line is written, nothing else is, the cache is not touched, the
\* socket is released and the next step is a connect attempt.
C3_ClosedReadEndsSession ==
    [][(pc = "recv" /\ conn \in {"closed", "reset"} /\ pc' # "recv"
            /\ exc' # "SystemExit")
         => /\ out' = Append(out, EMPTYSTR)
            /\ formatted_cache' = formatted_cache
            /\ conn' = "none"
            /\ exc' = ""
            /\ pc' = "connect"]_vars

\* C3 witness: a session was subscribed and ended, and the reporter is about
\* to connect again.
C3_Witness ==
    /\ pc = "connect"
    /\ conn = "none"
    /\ sent = request_observers(user_config)
    /\ out = <<EMPTYSTR, EMPTYSTR>>

\* C4: during a session the cache has exactly one entry per configured
\* property.
C4_CacheKeys ==
    pc \in {"recv", "update", "output"}
        => DOMAIN formatted_cache = DOMAIN user_config

\* C5: at the start of a connection, before its first read, the cache entry
\* of every configured property is the empty string.
C5_FreshCache ==
    (pc = "recv" /\ contents = <<>>)
        => \A i \in DOMAIN user_config :
               /\ i \in DOMAIN formatted_cache
               /\ formatted_cache[i] = ""

\* C6: wait_connect never ends the process: a connect that fails because the
\* socket file is missing or the connection is refused is not raised.
C6_AcquireNeverFails ==
    exc \notin {"FileNotFoundError", "ConnectionRefusedError"}

\* C7: when the socket does not exist as the connection manager starts, the
\* manager goes on to return a live connection (unless SIGINT ends the
\* process first).
C7_EventuallyConnected ==
    (pc = "connect" /\ ~sockFile) ~> (conn = "open" \/ Signalled)

\* no unread event names the socket
NoSocketEvent == \A i \in DOMAIN events : events[i] # watch_file

\* C8: with the watch armed before the first connect, the reporter is never
\* blocked waiting for a creation event while the socket, created under the
\* watch, exists and accepts connections.
C8_NoLostWakeup ==
    ~(pc = "wait_event" /\ NoSocketEvent /\ sockFile /\ notified
        /\ peer = "listening")

\* C9: in every state of the main loop SIGINT can be taken; taking it writes
\* the empty line once as the last line and ends the process, and nothing is
\* written after the process has ended.
C9_SignalEmptiesAndExits ==
    /\ [](pc \in MainLoop => ENABLED Signal)
    /\ [][(pc \in MainLoop /\ exc' = "SystemExit")
            => /\ out' = Append(out, EMPTYSTR)
               /\ pc' = "exited"]_vars
    /\ [][pc = "exited" => (out' = out /\ pc' = "exited")]_vars

\* C9 witness: SIGINT arrived in the middle of a batch.
C9_Witness ==
    /\ pc = "exited"
    /\ exc = "SystemExit"
    /\ json_list # <<>>
    /\ specIdx \in 1..(Len(user_config) - 1)
    /\ out[Len(out)] = EMPTYSTR

\* the lines of a read that are JSON
GoodLines(b) == SelectSeq(b, LAMBDA l : l # Garbage)

\* the handling of the read held in contents has ended
ReadEnded ==
    /\ contents # <<>>
    /\ \/ pc = "recv"
       \/ pc = "exited" /\ ~Signalled

\* C11: after a read holding a line that is no JSON and a matching
\* property-change line has been handled, the session is still reading and
\* each property the valid lines name has the cache entry of its last
\* matching event: only the bad line was dropped.
C11_BadLineDropped ==
    ( /\ ReadEnded
      /\ \E k \in DOMAIN contents : contents[k] = Garbage
      /\ \E i \in DOMAIN user_config :
            HasMatch(GoodLines(contents), user_config[i].property) )
    => /\ pc = "recv"
       /\ \A i \in DOMAIN user_config :
            LET evs == MatchingEvents(GoodLines(contents),
                                      user_config[i].property)
                want == EntryFor(user_config[i],
                                 Get(evs[Len(evs)].d, "data"))
            IN evs # <<>> =>
                 /\ i \in DOMAIN formatted_cache
                 /\ formatted_cache[i] = want.val

\* every line of the batch is a JSON object
AllDicts(jl) == \A k \in DOMAIN jl : jl[k].t = "dict"

\* the last event of the batch for user_config[i] carries a value int() refuses
NonNumericLast(jl, i) ==
    LET evs == MatchingEvents(jl, user_config[i].property)
    IN /\ AllDicts(jl)
       /\ user_config[i].type = "int"
       /\ evs # <<>>
       /\ Truthy(Get(evs[Len(evs)].d, "data"))
       /\ py_int(Get(evs[Len(evs)].d, "data")).raised # ""

\* C12: the pass of the for loop that meets an integer property whose last
\* event carries a non-numeric value keeps the error to itself: the cache is
\* as it was before the pass and the process goes on with the batch.
C12_FormatErrorConfined ==
    [][ ( /\ pc = "update"
          /\ specIdx' = specIdx + 1
          /\ NonNumericLast(json_list, specIdx') )
        => /\ pc' \in {"update", "output"}
           /\ exc' = ""
           /\ formatted_cache' = formatted_cache ]_vars

\* C14: the process ends only through SIGINT.
C14_OnlySignalEnds == pc = "exited" => Signalled

\* the call of format_property being followed has returned
Formatted == fmt.spec # PyNone /\ fmt.result.raised = ""

\* the value after the integer coercion and the replace map
AfterReplace(spec, v) ==
    LET s1 == IF spec.type = "int" THEN IntToStr(py_int(v).val) ELSE v.s
    IN IF s1 \in DOMAIN spec.replace_map THEN spec.replace_map[s1] ELSE s1

\* what stands between the template's literal texts in the result
ValuePortion(spec, res) ==
    SubSeq(res, Len(spec.format[1]) + 1, Len(res) - Len(spec.format[2]))

\* C13: a value the replace map turns into the empty string makes the
\* property absent: format_property's result, the cache entry, is the empty
\* string whatever the template's literal text.
C13_EmptyReplacementAbsent ==
    ( /\ Formatted
      /\ fmt.value.t = "str"
      /\ fmt.value.s \in DOMAIN fmt.spec.d.replace_map
      /\ fmt.spec.d.replace_map[fmt.value.s] = "" )
    => fmt.result.val = ""

\* C15: format_property puts between the template's literal texts the first
\* max_length characters of the value (after the replace map) followed by
\* shorten_str, max_length + Len(shorten_str) characters in all, when the value
\* is longer than max_length, and the value unchanged otherwise.
C15_TruncationLaw ==
    Formatted =>
        LET spec == fmt.spec.d
            v == AfterReplace(spec, fmt.value)
            portion == ValuePortion(spec, fmt.result.val)
        IN IF Len(v) > spec.max_length
           THEN /\ portion = SubSeq(v, 1, spec.max_length) \o spec.shorten_str
                /\ Len(portion) = spec.max_length + Len(spec.shorten_str)
           ELSE portion = v

\* C15 witness: a media title one character over max_length has been cut
C15_Witness ==
    /\ Formatted
    /\ fmt.spec.d.property = "media-title"
    /\ Len(fmt.value.s) = fmt.spec.d.max_length + 1
    /\ Len(fmt.result.val) = fmt.spec.d.max_length
                             + Len(fmt.spec.d.shorten_str)

\* the data of the last event of the batch for user_config[i]
LastData(jl, i) ==
    LET evs == MatchingEvents(jl, user_config[i].property)
    IN Get(evs[Len(evs)].d, "data")

\* C16: the pass of the for loop that meets an integer property whose last
\* event carries a number sets the property's cache entry to the number
\* coerced to an integer, looked up in the replace map, cut and put into the
\* template: "(37%) " for volume 37.0.
C16_IntegerFormatted ==
    [][ ( /\ pc = "update"
          /\ specIdx' = specIdx + 1
          /\ AllDicts(json_list)
          /\ user_config[specIdx'].type = "int"
          /\ HasMatch(json_list, user_config[specIdx'].property)
          /\ Truthy(LastData(json_list, specIdx'))
          /\ py_int(LastData(json_list, specIdx')).raised = "" )
        => /\ specIdx' \in DOMAIN formatted_cache'
           /\ formatted_cache'[specIdx'] =
                 format_property(PyDict(user_config[specIdx']),
                                 LastData(json_list, specIdx')).val ]_vars

\* the subscribe commands a connection is owed: one per spec, in the
\* config's order, with the client id and the verb of the spec's type
SubscribesWanted ==
    [i \in DOMAIN user_config |->
        <<IF user_config[i].type = "int" THEN "observe_property"
          ELSE "observe_property_string",
          CLIENT_ID, user_config[i].property>>]

\* C17: a new connection goes to the subscribe step; that step sends exactly
\* the owed commands and enters the read with nothing read in between; and
\* whenever the session reads or handles a batch those commands, and no
\* others, have been sent on its connection.
C17_SubscribePerProperty ==
    /\ [][conn # "open" /\ conn' = "open" => pc' = "subscribe"]_vars
    /\ [][pc = "subscribe" /\ pc' \notin {"subscribe", "exited"}
            => /\ pc' = "recv"
               /\ sent' = SubscribesWanted
               /\ contents' = <<>>]_vars
    /\ [](pc \in {"recv", "update", "output"} => sent = SubscribesWanted)

\* C17 witness: the second connection has subscribed and waits for its first
\* read
C17_Witness ==
    /\ pc = "recv"
    /\ conn = "open"
    /\ contents = <<>>
    /\ out = <<EMPTYSTR, EMPTYSTR>>
    /\ Len(sent) = Len(user_config)

C19_LineAfterChange ==
    ( /\ BatchEnded
      /\ AllDicts(json_list)
      /\ \E i \in DOMAIN user_config :
            HasMatch(json_list, user_config[i].property) )
    => /\ pc = "recv"
       /\ Len(out) > 1
       /\ out[Len(out)] = Join(formatted_cache)

\* C20: once the for loop has met a property whose last event carries null,
\* false, 0 or the empty string, get_newest_data's result is the empty
\* string, not None, and the property's cache entry is the empty string.
C20_FalsyClearsEntry ==
    ( /\ specIdx >= 1
      /\ AllDicts(json_list)
      /\ HasMatch(json_list, user_config[specIdx].property)
      /\ ~Truthy(LastData(json_list, specIdx)) )
    => /\ value = PyStr(EMPTYSTR)
       /\ specIdx \in DOMAIN formatted_cache
       /\ formatted_cache[specIdx] = EMPTYSTR

====
